---- MODULE Spec2Model ----
(***************************************************************************)
(* Streaming service adapters of pipecat:                                  *)
(*   - PocketTTSService (src/src/pipecat/services/kyutai/tts.py): one HTTP *)
(*     POST per run_tts call, the WAV response streamed into audio frames. *)
(*   - VoskSTTService (src/src/pipecat/services/vosk/stt.py): a WebSocket  *)
(*     to the recogniser, a receive loop decoding JSON result messages.    *)
(* SpecTTS is the state machine of the TTS adapter.  SpecSTT is that of   *)
(* the STT adapter with one caller on a network that does not fail,        *)
(* SpecFaults adds the failures of the network and the cancellation of the *)
(* caller, SpecConn a second concurrent caller; SpecAdapters is either     *)
(* adapter on its own.  An asynchronous generator is modelled by one       *)
(* action per segment between two suspension points (an await on the       *)
(* network or a yield to the consumer); start() and stop() run between     *)
(* the segments.  The awaits of the base classes' metrics and push_frame   *)
(* are taken to return without suspending.  One run_tts generator is       *)
(* consumed at a time, as the pipeline's frame processor does; run_stt is  *)
(* called by up to two tasks at once.                                      *)
(***************************************************************************)
EXTENDS Integers, Sequences, FiniteSets, TLC

VARIABLES
    \* ---- PocketTTSService ----
    chunk_size,     \* TTSService.chunk_size, fixed at construction
    session,        \* self._session: 0 is None, otherwise a session id
    sessionState,   \* per session id: "unused", "open" or "closed"
    ttsPc,          \* where the run_tts generator is suspended: "idle",
                    \* "posting" (in the POST), "error_text" (in
                    \* response.text()), "error_status", "error_exc", "started",
                    \* "audio" (at the yield of that frame), "streaming" (in
                    \* the body read), "stopped" and "stop_raising" (at the
                    \* yield of the Stop frame, the latter with an exception
                    \* pending), "done", "closed" (by aclose)
    calls,          \* run_tts invocations so far
    posts,          \* HTTP POST requests issued so far
    posted,         \* the text of the latest POST
    response,       \* the response of the current call
    pos,            \* bytes of the response body delivered by the transport
    buf,            \* the chunker's buffer
    need_strip,     \* the chunker has not stripped the header yet
    eof,            \* the transport reported the end of the body
    chunked,        \* the body stream was handed to the chunker in this call
    frames,         \* frames yielded by the current run_tts call, in order
    ttfb,           \* the TTFB window: "open" or "closed"
    raised,         \* an exception was raised in the current call
    escaped,        \* an exception left the generator in the current call
    prevFailed,     \* an exception was raised in the previous run_tts call
    exchange,       \* the HTTP exchange of the current call: "none", "open", "released"
    cancelled,      \* the consumer of the current call was cancelled while it waited
    aclose,         \* how aclose() on the current call's generator ended: "none"
                    \* (not called), "clean" or "RuntimeError"
    closing,        \* the session stop() is waiting for the close of, 0 if none
    \* ---- VoskSTTService ----
    websocket,      \* self._websocket: 0 is None, otherwise a connection id
    connState,      \* per connection id: "unused", "open", "closed" (by the
                    \* adapter) or "broken" (socket error)
    closeCalls,     \* per connection id: calls of close() by the adapter
    outbox,         \* per connection id: messages the adapter sent on it
    inbox,          \* per connection id: messages sent by the backend, unread
    script,         \* the messages the backend will send, in order
    sentIdx,        \* messages of the script sent so far
    receiveTask,    \* the receive task: "none", "running", "cancelling" (cancel
                    \* requested, not yet delivered), "cancelled", "ended", "raised"
    recvConn,       \* the connection _receive_messages iterates over, 0 if none
    handled,        \* per message read, in order: the message, the frames
                    \* pushed for it, whether the loop went on after it
    pushed,         \* frames pushed downstream by push_frame, in order
    sttOp,          \* the connection operation that ran last: "none",
                    \* "connect_opened", "connect", "connect_raised", "disconnect",
                    \* "disconnect_again" (a disconnect right after a disconnect)
    callers,        \* the tasks that call run_stt on the adapter
    runStt,         \* per caller: its run_stt call (see IdleRun)
    sttCalls,       \* run_stt invocations so far
    sttSent,        \* audio messages sent so far
    pending,        \* error frames of push_error tasks that have not run yet
    stopped,        \* stop() has returned
    pushedAtStop,   \* number of frames pushed when stop() returned
    closingWs,      \* the connection whose close() is awaited, 0 if none
    stopping        \* stop() is waiting in _disconnect

ttsVars == <<chunk_size, session, sessionState, ttsPc, calls, posts, posted,
             response, pos, buf, need_strip, eof, chunked, frames, ttfb, raised,
             escaped, prevFailed, exchange, cancelled, aclose, closing>>
sttVars == <<websocket, connState, closeCalls, outbox, inbox, script, sentIdx,
             receiveTask, recvConn, handled, pushed, sttOp, callers, runStt,
             sttCalls, sttSent, pending, stopped, pushedAtStop, closingWs,
             stopping>>
vars == <<ttsVars, sttVars>>

\* ------------------------------------------------------------------------
\* Bounds of the model
\* ------------------------------------------------------------------------
MaxPayload == 3      \* PCM bytes after the WAV header
MaxCalls == 2        \* run_tts invocations
MaxSessions == 2     \* HTTP client sessions created
MaxScript == 1       \* messages of an arbitrary backend script
MaxConns == 2        \* WebSocket connections opened
MaxSends == 2        \* run_stt invocations

\* The tasks that may call run_stt
Callers == {1, 2}
\* A run_stt call: where it is suspended ("idle" before the first call,
\* "connecting" in websockets.connect, "handshaking" in the send of the
\* configuration, "sending" in the send of the audio, "done"), its audio
\* argument, the connection its pending send was called on, the frames it
\* yielded, the exception that left it ("none" if none) and the path it took
IdleRun ==
    [pc |-> "idle", audio |-> <<>>, conn |-> 0, yielded |-> <<>>, raised |-> "none",
     outcome |-> "none"]

Min(a, b) == IF a < b THEN a ELSE b

\* ------------------------------------------------------------------------
\* Frames (pipecat.frames.frames)
\* ------------------------------------------------------------------------
Frame(k, a, e, t) == [kind |-> k, audio |-> a, error |-> e, text |-> t]
TTSStartedFrame == Frame("TTSStarted", <<>>, <<>>, "")
TTSStoppedFrame == Frame("TTSStopped", <<>>, <<>>, "")
TTSAudioRawFrame(bytes) == Frame("TTSAudioRaw", bytes, <<>>, "")
\* ErrorFrame(message): the message is kept as the parts the f-string joins
ErrorFrame(parts) == Frame("Error", <<>>, parts, "")
TranscriptionFrame(t) == Frame("Transcription", <<>>, <<>>, t)
InterimTranscriptionFrame(t) == Frame("InterimTranscription", <<>>, <<>>, t)

\* ------------------------------------------------------------------------
\* Inputs of the TTS adapter
\* ------------------------------------------------------------------------
Texts == {"hello", "bye"}
Statuses == {200, 204, 404, 500}
ErrorBodies == {"backend unavailable", "not found"}
\* Exceptions aiohttp raises from post(), text() and the body iterator
Exceptions == {"ClientConnectionError", "TimeoutError"}
\* What an await can raise: an exception, or asyncio.CancelledError (a
\* BaseException) when the caller cancels the waiting task
Raisable == Exceptions \cup {"CancelledError"}
ChunkSizes == {2, 64}

\* The WAV container: a header of WavHeaderSize bytes, then PCM bytes.
WavHeaderSize == 44
Header == [i \in 1..WavHeaderSize |-> 100 + i]
\* PCM payloads: n bytes, each distinct from the others and from the header
Payloads == {[i \in 1..n |-> i] : n \in 0..MaxPayload}
ShortLens == {0, 20}
WavBodies == {Header \o p : p \in Payloads}
             \cup {SubSeq(Header, 1, n) : n \in ShortLens}

NoResponse == [status |-> 0, text |-> "", body |-> <<>>]
Responses == {[status |-> 200, text |-> "", body |-> b] : b \in WavBodies}
             \cup {[status |-> s, text |-> t, body |-> <<>>] :
                      s \in Statuses \ {200}, t \in ErrorBodies}

\* ------------------------------------------------------------------------
\* PocketTTSService
\* ------------------------------------------------------------------------
\* The argument run_tts passes to the chunker (tts.py:83)
strip_wav_header_omitted == FALSE
strip_wav_header == TRUE

\* tts.py:71, negated: the response is taken as audio
StatusOkBelow500(status) == status < 500
StatusOk(status) == status = 200

\* tts.py:74: ErrorFrame(f"Pocket TTS error: {response.status}")
StatusErrorFrame(r) == ErrorFrame(<<"Pocket TTS error: ", ToString(r.status)>>)

\* tts.py:90: ErrorFrame(f"Pocket TTS exception: {e}")
ExceptionErrorFrame(e) == ErrorFrame(<<"Pocket TTS exception: ", e>>)

\* tts.py:88: `except Exception` catches every subclass of Exception
CatchesClientErrorOnly(e) == e = "ClientConnectionError"
CatchesBaseException(e) == TRUE
Catches(e) == e \in Exceptions

\* tts.py:78
YieldStartedMissing(fs) == fs
YieldStarted(fs) == Append(fs, TTSStartedFrame)

\* tts.py:86
YieldAudio(fs, frame) == Append(fs, frame)

\* tts.py:69: start_ttfb_metrics opens the TTFB window
StartTtfb == "open"

\* tts.py:85, 92: stop_ttfb_metrics closes the window w, open or not
StopTtfbSkipped(w) == w
StopTtfb(w) == "closed"

\* tts.py:93: the finally block yields; a generator that yields while
\* aclose() is closing it makes aclose() raise RuntimeError
FinallyYields == TRUE
AcloseOutcome == IF FinallyYields THEN "RuntimeError" ELSE "clean"

\* tts.py:91-93: the finally block's yield
YieldStoppedUnlessRaised(fs) == IF raised THEN fs ELSE Append(fs, TTSStoppedFrame)
YieldStopped(fs) == Append(fs, TTSStoppedFrame)

\* tts.py:58: `not self._session or self._session.closed`
NeedSession == session = 0 \/ sessionState[session] = "closed"
FreshSessions == {i \in 1..MaxSessions : sessionState[i] = "unused"}
NewSession == CHOOSE i \in FreshSessions : \A j \in FreshSessions : i <= j

\* The chunker, _stream_audio_frames_from_iterator(iterator, strip_wav_header):
\* bytes are buffered until the header length is satisfied, the header is
\* dropped once, and the rest leaves in frames of chunk_size bytes.
Feed(b, strip, chunk) ==
    LET all == b \o chunk
    IN  IF strip /\ Len(all) >= WavHeaderSize
        THEN [buf |-> SubSeq(all, WavHeaderSize + 1, Len(all)), need_strip |-> FALSE]
        ELSE [buf |-> all, need_strip |-> strip]
FrameReady ==
    /\ ~need_strip
    /\ \/ Len(buf) >= chunk_size
       \/ eof /\ Len(buf) > 0
NextFrame == TTSAudioRawFrame(SubSeq(buf, 1, Min(chunk_size, Len(buf))))
AfterFrame == SubSeq(buf, Min(chunk_size, Len(buf)) + 1, Len(buf))

\* An exception e raised inside the try block (tts.py:68-93): the except
\* clause yields one ErrorFrame; what it does not catch reaches the finally
\* block, which yields the Stop frame while the exception is still pending.
Raise(fs, e) ==
    IF Catches(e)
    THEN /\ frames' = Append(fs, ExceptionErrorFrame(e))
         /\ ttsPc' = "error_exc"
         /\ raised' = TRUE
         /\ cancelled' = (e = "CancelledError")
         /\ UNCHANGED <<ttfb, escaped>>
    ELSE /\ frames' = YieldStopped(fs)
         /\ ttsPc' = "stop_raising"
         /\ raised' = TRUE
         /\ cancelled' = (e = "CancelledError")
         /\ ttfb' = StopTtfb(ttfb)
         /\ UNCHANGED escaped

\* run_tts up to the POST (tts.py:57-70): the session is created if needed,
\* the TTFB window opened and the request issued; the generator waits for
\* the answer
Call(text) ==
    /\ ttsPc \in {"idle", "done", "closed"}
    /\ calls < MaxCalls
    /\ NeedSession => FreshSessions # {}
    /\ calls' = calls + 1
    /\ session' = IF NeedSession THEN NewSession ELSE session
    /\ sessionState' = IF NeedSession
                       THEN [sessionState EXCEPT ![NewSession] = "open"]
                       ELSE sessionState
    /\ posts' = posts + 1
    /\ posted' = text
    /\ prevFailed' = raised
    /\ response' = NoResponse
    /\ exchange' = "none"
    /\ pos' = 0
    /\ buf' = <<>>
    /\ eof' = FALSE
    /\ chunked' = FALSE
    /\ need_strip' = strip_wav_header
    /\ frames' = <<>>
    /\ ttfb' = StartTtfb
    /\ raised' = FALSE
    /\ escaped' = FALSE
    /\ cancelled' = FALSE
    /\ aclose' = "none"
    /\ ttsPc' = "posting"
    /\ UNCHANGED <<chunk_size, closing>>
    /\ UNCHANGED sttVars

\* run_tts, the POST raises (tts.py:70, 88-93)
RunTtsPostFails(e) ==
    /\ ttsPc = "posting"
    /\ Raise(frames, e)
    /\ UNCHANGED <<chunk_size, session, sessionState, calls, posts, posted, response,
                   pos, buf, need_strip, eof, chunked, prevFailed, exchange,
                   aclose, closing>>
    /\ UNCHANGED sttVars

\* run_tts, the POST is answered with a status that is not taken as audio
\* (tts.py:70-72): the generator waits for the body text
RunTtsErrorResponse(r) ==
    /\ ttsPc = "posting"
    /\ ~StatusOk(r.status)
    /\ response' = r
    /\ exchange' = "open"
    /\ ttsPc' = "error_text"
    /\ UNCHANGED <<chunk_size, session, sessionState, calls, posts, posted, pos,
                   buf, need_strip, eof, chunked, frames, ttfb, raised, escaped,
                   prevFailed, cancelled, aclose, closing>>
    /\ UNCHANGED sttVars

\* run_tts, the body text of the error response was read (tts.py:72-74)
RunTtsStatusError ==
    /\ ttsPc = "error_text"
    /\ frames' = Append(frames, StatusErrorFrame(response))
    /\ ttsPc' = "error_status"
    /\ UNCHANGED <<chunk_size, session, sessionState, calls, posts, posted, response,
                   pos, buf, need_strip, eof, chunked, ttfb, raised, escaped,
                   prevFailed, exchange, cancelled, aclose, closing>>
    /\ UNCHANGED sttVars

\* run_tts, reading the error body raises (tts.py:72, 88-93)
RunTtsTextFails(e) ==
    /\ ttsPc = "error_text"
    /\ exchange' = "released"
    /\ Raise(frames, e)
    /\ UNCHANGED <<chunk_size, session, sessionState, calls, posts, posted, response,
                   pos, buf, need_strip, eof, chunked, prevFailed, aclose, closing>>
    /\ UNCHANGED sttVars

\* run_tts, the POST is answered with a response taken as audio
\* (tts.py:70-78)
RunTtsStarted(r) ==
    /\ ttsPc = "posting"
    /\ StatusOk(r.status)
    /\ response' = r
    /\ exchange' = "open"
    /\ frames' = YieldStarted(frames)
    /\ ttsPc' = "started"
    /\ UNCHANGED <<chunk_size, session, sessionState, calls, posts, posted, pos,
                   buf, need_strip, eof, chunked, ttfb, raised, escaped,
                   prevFailed, cancelled, aclose, closing>>
    /\ UNCHANGED sttVars

\* The generator was resumed and the chunker is waiting for the transport.
\* ttsPc is "started" at the yield of tts.py:78, "audio" at the yield of
\* tts.py:86 and "streaming" while the chunker reads.
Reading == ttsPc \in {"started", "audio", "streaming"} /\ ~FrameReady /\ ~eof

\* iter_chunked(chunk_size) delivers the next n bytes (tts.py:81-84)
ReadChunk(n) ==
    /\ Reading
    /\ n \in 1..Min(chunk_size, Len(response.body) - pos)
    /\ LET fed == Feed(buf, need_strip, SubSeq(response.body, pos + 1, pos + n))
       IN  /\ buf' = fed.buf
           /\ need_strip' = fed.need_strip
    /\ pos' = pos + n
    /\ chunked' = TRUE
    /\ ttsPc' = "streaming"
    /\ UNCHANGED <<chunk_size, session, sessionState, calls, posts, posted, response,
                   eof, frames, ttfb, raised, escaped, prevFailed, exchange,
                   cancelled, aclose, closing>>
    /\ UNCHANGED sttVars

\* The body iterator ends (tts.py:81-84)
ReadEof ==
    /\ Reading
    /\ pos = Len(response.body)
    /\ eof' = TRUE
    /\ chunked' = TRUE
    /\ ttsPc' = "streaming"
    /\ UNCHANGED <<chunk_size, session, sessionState, calls, posts, posted, response,
                   pos, buf, need_strip, frames, ttfb, raised, escaped, prevFailed,
                   exchange, cancelled, aclose, closing>>
    /\ UNCHANGED sttVars

\* The body iterator raises (tts.py:81-84, 88-93)
ReadFails(e) ==
    /\ Reading
    /\ Raise(frames, e)
    /\ chunked' = TRUE
    /\ exchange' = "released"
    /\ UNCHANGED <<chunk_size, session, sessionState, calls, posts, posted, response,
                   pos, buf, need_strip, eof, prevFailed, aclose, closing>>
    /\ UNCHANGED sttVars

\* The chunker yields a frame, run_tts passes it on (tts.py:85-86)
StreamAudio ==
    /\ ttsPc \in {"streaming", "audio"}
    /\ FrameReady
    /\ ttfb' = StopTtfb(ttfb)
    /\ frames' = YieldAudio(frames, NextFrame)
    /\ buf' = AfterFrame
    /\ ttsPc' = "audio"
    /\ UNCHANGED <<chunk_size, session, sessionState, calls, posts, posted,
                   response, pos, need_strip, eof, chunked, raised, escaped,
                   prevFailed, exchange, cancelled, aclose, closing>>
    /\ UNCHANGED sttVars

\* The generator is resumed and reaches the finally block (tts.py:91-93):
\* after the status error's `return`, after the except clause, or when the
\* chunker is exhausted.  It is suspended again at the yield of the Stop
\* frame.
Finally ==
    /\ \/ ttsPc \in {"error_status", "error_exc"}
       \/ ttsPc \in {"streaming", "audio"} /\ eof /\ ~FrameReady
    /\ ttfb' = StopTtfb(ttfb)
    /\ exchange' = IF exchange = "open" THEN "released" ELSE exchange
    /\ frames' = YieldStopped(frames)
    /\ ttsPc' = "stopped"
    /\ UNCHANGED <<chunk_size, session, sessionState, calls, posts, posted, response,
                   pos, buf, need_strip, eof, chunked, raised, escaped, prevFailed,
                   cancelled, aclose, closing>>
    /\ UNCHANGED sttVars

\* The generator is resumed after the Stop frame (tts.py:93): it ends, and
\* an exception the except clause did not catch leaves it now
RunTtsEnd ==
    /\ ttsPc \in {"stopped", "stop_raising"}
    /\ escaped' = (ttsPc = "stop_raising")
    /\ ttsPc' = "done"
    /\ UNCHANGED <<chunk_size, session, sessionState, calls, posts, posted, response,
                   pos, buf, need_strip, eof, chunked, frames, ttfb, raised,
                   prevFailed, exchange, cancelled, aclose, closing>>
    /\ UNCHANGED sttVars

\* The consumer closes the generator (aclose) while it is suspended at a
\* yield.  Before the Stop frame, GeneratorExit leaves the `async with` (the
\* response is released), passes the except clause and reaches the finally
\* block (tts.py:91-93); at the yield of the Stop frame it leaves the
\* generator, in place of a pending exception.
Abandon ==
    /\ ttsPc \in {"started", "audio", "error_status", "error_exc", "stopped",
                  "stop_raising"}
    /\ exchange' = IF exchange = "open" THEN "released" ELSE exchange
    /\ ttfb' = StopTtfb(ttfb)
    /\ aclose' = IF ttsPc \in {"stopped", "stop_raising"} THEN "clean" ELSE AcloseOutcome
    /\ ttsPc' = "closed"
    /\ UNCHANGED <<chunk_size, session, sessionState, calls, posts, posted, response,
                   pos, buf, need_strip, eof, chunked, frames, raised, escaped,
                   prevFailed, cancelled, closing>>
    /\ UNCHANGED sttVars

\* PocketTTSService.start (tts.py:46-48): the session is replaced without
\* looking at the one held
TtsStart ==
    /\ FreshSessions # {}
    /\ session' = NewSession
    /\ sessionState' = [sessionState EXCEPT ![NewSession] = "open"]
    /\ UNCHANGED <<chunk_size, ttsPc, calls, posts, posted, response, pos, buf,
                   need_strip, eof, chunked, frames, ttfb, raised, escaped,
                   prevFailed, exchange, cancelled, aclose, closing>>
    /\ UNCHANGED sttVars

\* PocketTTSService.stop up to the await of close() (tts.py:50-52)
TtsStop ==
    /\ closing = 0
    /\ session # 0
    /\ sessionState' = [sessionState EXCEPT ![session] = "closed"]
    /\ closing' = session
    /\ UNCHANGED <<chunk_size, session, ttsPc, calls, posts, posted, response, pos,
                   buf, need_strip, eof, chunked, frames, ttfb, raised, escaped,
                   prevFailed, exchange, cancelled, aclose>>
    /\ UNCHANGED sttVars

\* PocketTTSService.stop after close() has returned (tts.py:53-54): the
\* handle is cleared, whatever it refers to by now
TtsStopReturns ==
    /\ closing # 0
    /\ session' = 0
    /\ closing' = 0
    /\ UNCHANGED <<chunk_size, sessionState, ttsPc, calls, posts, posted, response,
                   pos, buf, need_strip, eof, chunked, frames, ttfb, raised,
                   escaped, prevFailed, exchange, cancelled, aclose>>
    /\ UNCHANGED sttVars

SttInitVars ==
    /\ websocket = 0
    /\ connState = [c \in 1..MaxConns |-> "unused"]
    /\ closeCalls = [c \in 1..MaxConns |-> 0]
    /\ outbox = [c \in 1..MaxConns |-> <<>>]
    /\ inbox = [c \in 1..MaxConns |-> <<>>]
    /\ sentIdx = 0
    /\ receiveTask = "none"
    /\ recvConn = 0
    /\ handled = <<>>
    /\ pushed = <<>>
    /\ sttOp = "none"
    /\ runStt = [p \in Callers |-> IdleRun]
    /\ sttCalls = 0
    /\ sttSent = 0
    /\ pending = <<>>
    /\ stopped = FALSE
    /\ pushedAtStop = 0
    /\ closingWs = 0
    /\ stopping = FALSE

TtsInitVars ==
    /\ session = 0
    /\ sessionState = [i \in 1..MaxSessions |-> "unused"]
    /\ ttsPc = "idle"
    /\ calls = 0
    /\ posts = 0
    /\ posted = ""
    /\ response = NoResponse
    /\ pos = 0
    /\ buf = <<>>
    /\ need_strip = strip_wav_header
    /\ eof = FALSE
    /\ chunked = FALSE
    /\ frames = <<>>
    /\ ttfb = "closed"
    /\ raised = FALSE
    /\ escaped = FALSE
    /\ prevFailed = FALSE
    /\ exchange = "none"
    /\ cancelled = FALSE
    /\ aclose = "none"
    /\ closing = 0

\* PocketTTSService.__init__ (tts.py:30-41)
InitTTS ==
    /\ chunk_size \in ChunkSizes
    /\ TtsInitVars
    /\ script = <<>>
    /\ callers = {}
    /\ SttInitVars

NextTTS ==
    \/ \E t \in Texts : Call(t)
    \/ \E e \in Raisable : RunTtsPostFails(e)
    \/ \E r \in Responses : RunTtsErrorResponse(r)
    \/ RunTtsStatusError
    \/ \E e \in Raisable : RunTtsTextFails(e)
    \/ \E r \in Responses : RunTtsStarted(r)
    \/ \E n \in 1..Min(chunk_size, WavHeaderSize + MaxPayload) : ReadChunk(n)
    \/ ReadEof
    \/ \E e \in Raisable : ReadFails(e)
    \/ StreamAudio
    \/ Finally
    \/ RunTtsEnd
    \/ Abandon
    \/ TtsStart
    \/ TtsStop
    \/ TtsStopReturns

SpecTTS == InitTTS /\ [][NextTTS]_vars

\* ------------------------------------------------------------------------
\* Properties of PocketTTSService.run_tts
\* ------------------------------------------------------------------------
Count(fs, k) == Cardinality({i \in 1..Len(fs) : fs[i].kind = k})
Kinds(fs) == [i \in 1..Len(fs) |-> fs[i].kind]
RECURSIVE AudioBytes(_)
AudioBytes(fs) ==
    IF fs = <<>> THEN <<>>
    ELSE (IF Head(fs).kind = "TTSAudioRaw" THEN Head(fs).audio ELSE <<>>)
         \o AudioBytes(Tail(fs))
\* The body without its first WavHeaderSize bytes
Stripped(b) == SubSeq(b, WavHeaderSize + 1, Len(b))
IsPrefix(a, b) == Len(a) <= Len(b) /\ a = SubSeq(b, 1, Len(a))
Contains(parts, s) == \E j \in 1..Len(parts) : parts[j] = s
Completed == ttsPc = "done"
GotResponse == response # NoResponse

\* C1: a run_tts call consumed to completion has yielded exactly one
\* TTSStoppedFrame, as its last frame, whatever path it took (200, non-200,
\* exception in the POST or in the stream read); no call yields a second
\* Stop frame or a frame after the Stop frame, and the Stop frame is only
\* yielded from the finally block.
C1_OneStoppedLast ==
    /\ Completed =>
          /\ Count(frames, "TTSStopped") = 1
          /\ frames[Len(frames)].kind = "TTSStopped"
    /\ Count(frames, "TTSStopped") <= 1
    /\ Count(frames, "TTSStopped") = 1 =>
          /\ frames[Len(frames)].kind = "TTSStopped"
          /\ ttsPc \in {"stopped", "stop_raising", "done", "closed"}
    /\ ttsPc \in {"stopped", "stop_raising"} => Count(frames, "TTSStopped") = 1

\* C1 witness: a completed call whose POST raised.
C1_Witness ==
    /\ Completed /\ raised /\ ~GotResponse
    /\ Kinds(frames) = <<"Error", "TTSStopped">>

\* C2: in a call that received a 200 response the first frame is the one
\* TTSStartedFrame, every audio frame comes after it and before the Stop
\* frame, and the audio frames carry the body's payload bytes in stream
\* order; in no call is an audio frame yielded without a Start frame before
\* it or with a Stop frame before it.
C2_StartAudioStopOrder ==
    /\ (GotResponse /\ response.status = 200 /\ ttsPc # "idle") =>
          /\ frames # <<>>
          /\ frames[1].kind = "TTSStarted"
          /\ Count(frames, "TTSStarted") = 1
          /\ IsPrefix(AudioBytes(frames), Stripped(response.body))
    /\ \A i \in 1..Len(frames) :
          frames[i].kind = "TTSAudioRaw" =>
             /\ \E j \in 1..(i - 1) : frames[j].kind = "TTSStarted"
             /\ \A j \in 1..(i - 1) : frames[j].kind # "TTSStopped"

\* C2 witness: a completed 200 call interrupted by an exception after an
\* audio frame: Start, audio, Error, Stop.
C2_Witness ==
    /\ Completed /\ raised /\ GotResponse /\ response.status = 200
    /\ Kinds(frames) = <<"TTSStarted", "TTSAudioRaw", "Error", "TTSStopped">>

\* C3: a call whose response status is not 2xx yields, unless its caller
\* is cancelled, exactly one ErrorFrame and then the TTSStoppedFrame: never a
\* Start frame, never an audio frame, and its body stream is never handed to
\* the chunker.
NonSuccess == GotResponse /\ ~(response.status \in 200..299)
C3_Non2xxErrorThenStop ==
    (NonSuccess /\ ~cancelled) =>
       /\ ~chunked
       /\ Count(frames, "TTSStarted") = 0
       /\ Count(frames, "TTSAudioRaw") = 0
       /\ IsPrefix(Kinds(frames), <<"Error", "TTSStopped">>)
       /\ Completed => Kinds(frames) = <<"Error", "TTSStopped">>
       /\ ttsPc = "stopped" => Kinds(frames) = <<"Error", "TTSStopped">>
       /\ ttsPc = "error_status" => Kinds(frames) = <<"Error">>
       /\ ttsPc = "error_text" => frames = <<>>

\* C3 witness: a completed call that received status 404.
C3_Witness ==
    /\ Completed /\ GotResponse /\ response.status = 404 /\ ~raised
    /\ Len(frames) = 2

\* C4: the ErrorFrame yielded for a non-200 response with status s and body b
\* carries both s and b in its message.
C4_ErrorCarriesStatusAndBody ==
    (GotResponse /\ response.status # 200 /\ ~raised) =>
       \A i \in 1..Len(frames) :
          frames[i].kind = "Error" =>
             /\ Contains(frames[i].error, ToString(response.status))
             /\ Contains(frames[i].error, response.text)

\* C5: for a 200 response read to its end, however the transport split the
\* body, the audio frames concatenate to the body minus its first
\* WavHeaderSize bytes; while the stream is read they are a prefix of it.
C5_HeaderStrippedOnce ==
    (GotResponse /\ response.status = 200) =>
       /\ IsPrefix(AudioBytes(frames), Stripped(response.body))
       /\ (Completed /\ ~raised) => AudioBytes(frames) = Stripped(response.body)

\* C5 witness: a body of header plus MaxPayload bytes, delivered in transport
\* chunks of at most 2 bytes (the header spans at least 22 of them), read to
\* its end.
C5_Witness ==
    /\ Completed /\ ~raised /\ GotResponse /\ response.status = 200
    /\ chunk_size = 2
    /\ Len(response.body) >= WavHeaderSize + 3
    /\ AudioBytes(frames) = Stripped(response.body)
    /\ Count(frames, "TTSAudioRaw") >= 2

\* C6: an exception raised by the POST or the stream read becomes exactly
\* one ErrorFrame of the call's sequence and never leaves the generator
\* (only the cancellation of the caller does);
\* every call, also one that follows a failed call, issues its own request
\* and yields its own sequence.
C6_ExceptionBecomesOneError ==
    /\ escaped => cancelled
    /\ Count(frames, "Error") <= 1
    /\ (raised /\ ~cancelled) => Count(frames, "Error") = 1
    /\ posts = calls
    /\ (prevFailed /\ ttsPc # "idle") => posts >= 2
    /\ (prevFailed /\ ttsPc \notin {"idle", "posting", "error_text"}) =>
          /\ frames # <<>>
          /\ ~cancelled => frames[1].kind \in {"TTSStarted", "Error"}
          /\ Completed => frames[Len(frames)].kind = "TTSStopped"

\* C6 witness: the call after a failed call has completed with audio.
C6_Witness ==
    /\ Completed /\ prevFailed /\ ~raised
    /\ Count(frames, "TTSAudioRaw") >= 1
    /\ posts = 2

\* The call is between its POST and its finally block
InFlight == ttsPc \in {"posting", "error_text", "started", "streaming", "audio",
                       "error_status", "error_exc"}
\* The call has yielded its Stop frame or was closed
Ended == ttsPc \in {"stopped", "stop_raising", "done", "closed"}

\* C17: the TTFB window is open from before the POST until the first audio
\* frame: it is still open when TTSStartedFrame is yielded and at every
\* point of a call that has yielded no audio frame yet; it is closed once an
\* audio frame has been handed to the consumer, and on every path it is
\* closed when the call has ended with the TTSStoppedFrame.
C17_TtfbClosesAtFirstAudio ==
    /\ ttsPc = "started" => ttfb = "open"
    /\ (InFlight /\ Count(frames, "TTSAudioRaw") = 0) => ttfb = "open"
    /\ Count(frames, "TTSAudioRaw") >= 1 => ttfb = "closed"
    /\ Ended => ttfb = "closed"

\* C17 witness: the generator is suspended at the yield of its first audio
\* frame, after the Start frame, with the window closed.
C17_Witness ==
    /\ ttsPc = "audio"
    /\ Kinds(frames) = <<"TTSStarted", "TTSAudioRaw">>
    /\ ttfb = "closed"

\* C18: on every exit path of run_tts the HTTP exchange is released, and a
\* consumer that closes the generator at a yield before the Stop frame gets
\* the exchange released and no error from closing it.
C18_AbandonReleasesQuietly ==
    /\ Ended => exchange # "open"
    /\ ttsPc = "closed" => aclose = "clean"

\* C20: every session the adapter created and did not close is the one it
\* references, so after stop(), which closes the referenced session and
\* clears the reference, no session is open.
C20_NoOrphanedSession ==
    \A i \in 1..MaxSessions : sessionState[i] = "open" => session = i

\* ------------------------------------------------------------------------
\* Inputs of the STT adapter
\* ------------------------------------------------------------------------
\* A message from the backend.  json: the text parses as a JSON object;
\* hasText / hasPartial: the object has the key; text / partial: its value.
Msg(j, ht, t, hp, pt) ==
    [json |-> j, hasText |-> ht, text |-> t, hasPartial |-> hp, partial |-> pt]
Partial(t) == Msg(TRUE, FALSE, "", TRUE, t)
Final(t) == Msg(TRUE, TRUE, t, FALSE, "")
Both(t, pt) == Msg(TRUE, TRUE, t, TRUE, pt)
Neither == Msg(TRUE, FALSE, "", FALSE, "")
Malformed == Msg(FALSE, FALSE, "", FALSE, "")
Msgs == {Partial(""), Partial("h"), Final(""), Final("hello"),
         Both("", ""), Both("", "h"), Both("hello", ""), Both("hello", "h"),
         Neither, Malformed}

\* The scripted backend of the partial/final ordering scenario
VoskScript == <<Partial("h"), Partial("he"), Partial("hello"), Final("hello")>>
\* The scripted backend of the empty-result scenario
EmptyResultScript == <<Partial(""), Final(""), Partial("h")>>
\* The scripted backend of the malformed-message scenario
MalformedScript == <<Malformed, Partial("h")>>
Scripts == {VoskScript, EmptyResultScript, MalformedScript}
           \cup UNION {[1..n -> Msgs] : n \in 0..MaxScript}
\* The backend of the failure and two-caller scenarios
ConnScripts == {<<>>, <<Partial("h")>>}

\* ------------------------------------------------------------------------
\* VoskSTTService
\* ------------------------------------------------------------------------
None == 0
FreshConns == {c \in 1..MaxConns : connState[c] = "unused"}
NewConn == CHOOSE c \in FreshConns : \A d \in FreshConns : c <= d

\* stt.py:55: json.dumps({"config": {"sample_rate": self._sample_rate}})
ConfigMessage == [binary |-> FALSE, data |-> <<>>, text |-> "config"]

\* stt.py:68-87: the frames _receive_messages pushes for a decoded message.
\* user_id, timestamp and language of the frames are left out.
DecodeUnchecked(m) ==
    IF m.hasText THEN <<TranscriptionFrame(m.text)>>
    ELSE IF m.hasPartial THEN <<InterimTranscriptionFrame(m.partial)>>
    ELSE <<>>
Decode(m) ==
    IF m.hasText
    THEN (IF m.text # "" THEN <<TranscriptionFrame(m.text)>> ELSE <<>>)
    ELSE IF m.hasPartial
    THEN (IF m.partial # "" THEN <<InterimTranscriptionFrame(m.partial)>> ELSE <<>>)
    ELSE <<>>

\* stt.py:77, 87: `await self.push_frame(frame)`: the loop waits for the
\* frame to be pushed before it reads the next message.
PushFramesUnawaited(q, fs) == fs \o q
PushFrames(q, fs) == q \o fs

\* stt.py:63: self._websocket = None
HandleKept(ws) == ws
HandleAfterDisconnect(ws) == None

Disconnected ==
    IF sttOp \in {"disconnect", "disconnect_again"}
    THEN "disconnect_again" ELSE "disconnect"

\* The audio arguments of run_stt
Audios == {<<1, 2>>}
\* stt.py:98: the audio argument is sent as one binary message
AudioMessage(audio) == [binary |-> TRUE, data |-> audio, text |-> ""]

\* What websockets.connect raises (stt.py:53), or the cancellation of the
\* caller waiting in it
ConnectRaisable == {"OSError", "CancelledError"}
\* What send raises in run_stt (stt.py:98): the socket is closed or broken,
\* self._websocket is None, or the caller is cancelled while it waits
SttExceptions == {"ConnectionClosed", "AttributeError"}
SttRaisable == SttExceptions \cup {"CancelledError"}

\* stt.py:105: except Exception
SttCatchesNothing(e) == FALSE
SttCatches(e) == e \in SttExceptions

\* stt.py:107: ErrorFrame(f"Vosk STT error: {e}")
SttErrorFrame(e) == ErrorFrame(<<"Vosk STT error: ", e>>)

\* stt.py:91-92: _connect is awaited before the try block, what it raises
\* leaves run_stt with no frame yielded
ConnectFailureFrames(e) == <<>>

\* stt.py:117-119: push_error schedules a task that pushes the frame
PushError(q, frame) == Append(q, frame)

\* What _receive_messages raises ends it (stt.py:65-87 has no try) and is
\* reported by the receive task handler through the callback start() gave
\* it (stt.py:115, section 7 of the specification); nothing of the adapter
\* calls _receive_messages again or touches the handle then.
ReceiveErrorFrame(e) == ErrorFrame(<<"Vosk receive error: ", e>>)

\* The end of a run_stt call
EndRun(r, fs, e, how) ==
    [pc |-> "done", audio |-> r.audio, conn |-> 0, yielded |-> fs, raised |-> e,
     outcome |-> how]

\* The send of run_stt raises e (stt.py:98, 105-110): what the except clause
\* catches becomes the one ErrorFrame of the call, the rest leaves run_stt
SendRaises(r, e) ==
    IF SttCatches(e)
    THEN EndRun(r, <<SttErrorFrame(e)>>, "none", "send_failed")
    ELSE EndRun(r, <<>>, e, IF e = "CancelledError" THEN "cancelled" ELSE "send_failed")

\* run_stt is called (stt.py:90-98): without a handle it awaits _connect,
\* with one it calls send on the connection the handle refers to and waits
\* for the send
RunStt(p, audio) ==
    /\ p \in callers
    /\ ~stopped
    /\ runStt[p].pc \in {"idle", "done"}
    /\ sttCalls < MaxSends
    /\ sttCalls' = sttCalls + 1
    /\ runStt' = [runStt EXCEPT ![p] =
                    [pc |-> IF websocket = None THEN "connecting" ELSE "sending",
                     audio |-> audio, conn |-> websocket, yielded |-> <<>>,
                     raised |-> "none", outcome |-> "none"]]
    /\ UNCHANGED <<websocket, connState, closeCalls, outbox, inbox, script,
                   sentIdx, receiveTask, recvConn, handled, pushed, sttOp,
                   callers, sttSent, pending, stopped, pushedAtStop, closingWs,
                   stopping>>
    /\ UNCHANGED ttsVars

\* _connect_websocket, websockets.connect raises (stt.py:53, 56-58), or the
\* caller is cancelled in it: run_stt ends with the exception
ConnectOpenFails(p, e) ==
    /\ runStt[p].pc = "connecting"
    /\ runStt' = [runStt EXCEPT ![p] =
                    EndRun(@, ConnectFailureFrames(e), e, "connect_raised")]
    /\ sttOp' = "connect_raised"
    /\ UNCHANGED <<websocket, connState, closeCalls, outbox, inbox, script,
                   sentIdx, receiveTask, recvConn, handled, pushed, callers,
                   sttCalls, sttSent, pending, stopped, pushedAtStop, closingWs,
                   stopping>>
    /\ UNCHANGED ttsVars

\* _connect_websocket, websockets.connect returns (stt.py:53-55): the handle
\* is assigned, send is called with the configuration and the caller waits
\* for it
ConnectOpened(p) ==
    /\ runStt[p].pc = "connecting"
    /\ FreshConns # {}
    /\ websocket' = NewConn
    /\ connState' = [connState EXCEPT ![NewConn] = "open"]
    /\ runStt' = [runStt EXCEPT ![p].pc = "handshaking", ![p].conn = NewConn]
    /\ sttOp' = "connect_opened"
    /\ UNCHANGED <<closeCalls, outbox, inbox, script, sentIdx, receiveTask,
                   recvConn, handled, pushed, callers, sttCalls, sttSent,
                   pending, stopped, pushedAtStop, closingWs, stopping>>
    /\ UNCHANGED ttsVars

\* _connect_websocket, sending the configuration raises (stt.py:55-58): the
\* connection was closed or has failed meanwhile, or the caller is
\* cancelled; the handle stays as it is
ConnectHandshakeFails(p, e) ==
    /\ runStt[p].pc = "handshaking"
    /\ \/ e = "CancelledError"
       \/ e = "ConnectionClosed" /\ connState[runStt[p].conn] # "open"
    /\ runStt' = [runStt EXCEPT ![p] =
                    EndRun(@, ConnectFailureFrames(e), e, "connect_raised")]
    /\ sttOp' = "connect_raised"
    /\ UNCHANGED <<websocket, connState, closeCalls, outbox, inbox, script,
                   sentIdx, receiveTask, recvConn, handled, pushed, callers,
                   sttCalls, sttSent, pending, stopped, pushedAtStop, closingWs,
                   stopping>>
    /\ UNCHANGED ttsVars

\* _connect_websocket, the configuration is sent (stt.py:55); run_stt goes
\* on (stt.py:94-98) and calls send on what the handle refers to by now,
\* which raises AttributeError when it is None
ConnectWebsocket(p) ==
    /\ runStt[p].pc = "handshaking"
    /\ connState[runStt[p].conn] = "open"
    /\ outbox' = [outbox EXCEPT ![runStt[p].conn] = Append(@, ConfigMessage)]
    /\ runStt' = [runStt EXCEPT ![p] =
                    IF websocket = None
                    THEN SendRaises(@, "AttributeError")
                    ELSE [@ EXCEPT !.pc = "sending", !.conn = websocket]]
    /\ sttOp' = "connect"
    /\ UNCHANGED <<websocket, connState, closeCalls, inbox, script, sentIdx,
                   receiveTask, recvConn, handled, pushed, callers, sttCalls,
                   sttSent, pending, stopped, pushedAtStop, closingWs, stopping>>
    /\ UNCHANGED ttsVars

\* The send of the audio returns (stt.py:98, 108-110); no frame is yielded
RunSttSend(p) ==
    /\ runStt[p].pc = "sending"
    /\ connState[runStt[p].conn] = "open"
    /\ outbox' = [outbox EXCEPT ![runStt[p].conn] =
                    Append(@, AudioMessage(runStt[p].audio))]
    /\ sttSent' = sttSent + 1
    /\ runStt' = [runStt EXCEPT ![p] = EndRun(@, <<>>, "none", "sent")]
    /\ UNCHANGED <<websocket, connState, closeCalls, inbox, script, sentIdx,
                   receiveTask, recvConn, handled, pushed, sttOp, callers,
                   sttCalls, pending, stopped, pushedAtStop, closingWs, stopping>>
    /\ UNCHANGED ttsVars

\* The send of the audio raises (stt.py:98, 105-110): ConnectionClosed when
\* the connection was closed or has failed, CancelledError when the caller
\* is cancelled while it waits
RunSttSendRaises(p, e) ==
    /\ runStt[p].pc = "sending"
    /\ \/ e = "CancelledError"
       \/ e = "ConnectionClosed" /\ connState[runStt[p].conn] # "open"
    /\ runStt' = [runStt EXCEPT ![p] = SendRaises(@, e)]
    /\ UNCHANGED <<websocket, connState, closeCalls, outbox, inbox, script,
                   sentIdx, receiveTask, recvConn, handled, pushed, sttOp,
                   callers, sttCalls, sttSent, pending, stopped, pushedAtStop,
                   closingWs, stopping>>
    /\ UNCHANGED ttsVars

\* stt.py:62: close() is called on the connection the handle refers to; the
\* connection is closing from then on, a failed one stays failed
CloseCalled(ws) ==
    /\ closeCalls' = [closeCalls EXCEPT ![ws] = @ + 1]
    /\ connState' = [connState EXCEPT ![ws] = IF @ = "broken" THEN "broken" ELSE "closed"]
    /\ closingWs' = ws

\* _disconnect_websocket up to the await of close() (stt.py:60-62); without
\* a handle it returns at once
DisconnectWebsocket ==
    /\ ~stopped
    /\ ~stopping
    /\ closingWs = 0
    /\ IF websocket # None
       THEN CloseCalled(websocket) /\ UNCHANGED sttOp
       ELSE sttOp' = Disconnected /\ UNCHANGED <<closeCalls, connState, closingWs>>
    /\ UNCHANGED <<websocket, outbox, inbox, script, sentIdx, receiveTask,
                   recvConn, handled, pushed, callers, runStt, sttCalls, sttSent,
                   pending, stopped, pushedAtStop, stopping>>
    /\ UNCHANGED ttsVars

\* _disconnect_websocket after close() has returned (stt.py:63): the handle
\* is cleared, whatever it refers to by now
DisconnectReturns ==
    /\ closingWs # 0
    /\ ~stopping
    /\ websocket' = HandleAfterDisconnect(websocket)
    /\ closingWs' = 0
    /\ sttOp' = Disconnected
    /\ UNCHANGED <<connState, closeCalls, outbox, inbox, script, sentIdx,
                   receiveTask, recvConn, handled, pushed, callers, runStt,
                   sttCalls, sttSent, pending, stopped, pushedAtStop, stopping>>
    /\ UNCHANGED ttsVars

\* The backend sends the next message of its script on the open connection
BackendSend ==
    /\ sentIdx < Len(script)
    /\ \E c \in 1..MaxConns :
          /\ connState[c] = "open"
          /\ inbox' = [inbox EXCEPT ![c] = Append(@, script[sentIdx + 1])]
    /\ sentIdx' = sentIdx + 1
    /\ UNCHANGED <<websocket, connState, closeCalls, outbox, script, receiveTask,
                   recvConn, handled, pushed, sttOp, callers, runStt, sttCalls,
                   sttSent, pending, stopped, pushedAtStop, closingWs, stopping>>
    /\ UNCHANGED ttsVars

\* The socket of an open connection fails
SocketError(c) ==
    /\ ~stopped
    /\ connState[c] = "open"
    /\ connState' = [connState EXCEPT ![c] = "broken"]
    /\ UNCHANGED <<websocket, closeCalls, outbox, inbox, script, sentIdx,
                   receiveTask, recvConn, handled, pushed, sttOp, callers,
                   runStt, sttCalls, sttSent, pending, stopped, pushedAtStop,
                   closingWs, stopping>>
    /\ UNCHANGED ttsVars

\* VoskSTTService.start (stt.py:112-115): the receive task is created
SttStart ==
    /\ ~stopped
    /\ ~stopping
    /\ receiveTask = "none"
    /\ receiveTask' = "running"
    /\ UNCHANGED <<websocket, connState, closeCalls, outbox, inbox, script,
                   sentIdx, recvConn, handled, pushed, sttOp, callers, runStt,
                   sttCalls, sttSent, pending, stopped, pushedAtStop, closingWs,
                   stopping>>
    /\ UNCHANGED ttsVars

\* VoskSTTService.stop up to the await of close() (stt.py:121-124, 60-62):
\* cancel() asks for the cancellation of the receive task and is not
\* followed by an await of the task; then _disconnect, which without a
\* handle returns at once, and stop() with it
SttStop ==
    /\ ~stopped
    /\ ~stopping
    /\ closingWs = 0
    /\ receiveTask' = IF receiveTask = "running" THEN "cancelling" ELSE receiveTask
    /\ IF websocket # None
       THEN /\ CloseCalled(websocket)
            /\ stopping' = TRUE
            /\ UNCHANGED <<sttOp, stopped, pushedAtStop>>
       ELSE /\ sttOp' = Disconnected
            /\ stopped' = TRUE
            /\ pushedAtStop' = Len(pushed)
            /\ UNCHANGED <<closeCalls, connState, closingWs, stopping>>
    /\ UNCHANGED <<websocket, outbox, inbox, script, sentIdx, recvConn, handled,
                   pushed, callers, runStt, sttCalls, sttSent, pending>>
    /\ UNCHANGED ttsVars

\* VoskSTTService.stop after close() has returned (stt.py:63, 125): the
\* handle is cleared, whatever it refers to by now, and stop() returns
SttStopReturns ==
    /\ stopping
    /\ websocket' = HandleAfterDisconnect(websocket)
    /\ closingWs' = 0
    /\ stopping' = FALSE
    /\ sttOp' = Disconnected
    /\ stopped' = TRUE
    /\ pushedAtStop' = Len(pushed)
    /\ UNCHANGED <<connState, closeCalls, outbox, inbox, script, sentIdx,
                   receiveTask, recvConn, handled, pushed, callers, runStt,
                   sttCalls, sttSent, pending>>
    /\ UNCHANGED ttsVars

\* _receive_messages begins to iterate over self._websocket (stt.py:66);
\* iterating over None raises TypeError out of _receive_messages
ReceiveEnter ==
    /\ receiveTask = "running"
    /\ recvConn = None
    /\ IF websocket # None
       THEN recvConn' = websocket /\ UNCHANGED <<receiveTask, pending>>
       ELSE /\ pending' = PushError(pending, ReceiveErrorFrame("TypeError"))
            /\ receiveTask' = "raised"
            /\ UNCHANGED recvConn
    /\ UNCHANGED <<websocket, connState, closeCalls, outbox, inbox, script,
                   sentIdx, handled, pushed, sttOp, callers, runStt, sttCalls,
                   sttSent, stopped, pushedAtStop, closingWs, stopping>>
    /\ UNCHANGED ttsVars

\* One iteration of the receive loop (stt.py:66-87): the next message is
\* decoded and its frame pushed; json.loads raising (stt.py:67) leaves the
\* loop and _receive_messages, and the failure is reported.
ReceiveMessage ==
    /\ receiveTask = "running"
    /\ recvConn # None
    /\ connState[recvConn] = "open"
    /\ inbox[recvConn] # <<>>
    /\ LET m == Head(inbox[recvConn])
           fs == IF m.json THEN Decode(m) ELSE <<>>
       IN  /\ pushed' = PushFrames(pushed, fs)
           /\ receiveTask' = IF m.json THEN "running" ELSE "raised"
           /\ recvConn' = IF m.json THEN recvConn ELSE None
           /\ pending' = IF m.json THEN pending
                         ELSE PushError(pending, ReceiveErrorFrame("JSONDecodeError"))
           /\ handled' = Append(handled,
                  [msg |-> m, frames |-> fs,
                   goesOn |-> (receiveTask' = "running")])
    /\ inbox' = [inbox EXCEPT ![recvConn] = Tail(@)]
    /\ UNCHANGED <<websocket, connState, closeCalls, outbox, script, sentIdx,
                   sttOp, callers, runStt, sttCalls, sttSent, stopped,
                   pushedAtStop, closingWs, stopping>>
    /\ UNCHANGED ttsVars

\* The connection the loop iterates over was closed: the iteration ends and
\* _receive_messages returns (stt.py:66)
ReceiveClosed ==
    /\ receiveTask = "running"
    /\ recvConn # None
    /\ connState[recvConn] = "closed"
    /\ recvConn' = None
    /\ receiveTask' = "ended"
    /\ UNCHANGED <<websocket, connState, closeCalls, outbox, inbox, script,
                   sentIdx, handled, pushed, sttOp, callers, runStt, sttCalls,
                   sttSent, pending, stopped, pushedAtStop, closingWs, stopping>>
    /\ UNCHANGED ttsVars

\* The socket the loop iterates over failed: the iteration raises (stt.py:66)
\* out of _receive_messages and the failure is reported; the handle is left
\* as it is
ReceiveSocketError ==
    /\ receiveTask = "running"
    /\ recvConn # None
    /\ connState[recvConn] = "broken"
    /\ pending' = PushError(pending, ReceiveErrorFrame("ConnectionClosedError"))
    /\ recvConn' = None
    /\ receiveTask' = "raised"
    /\ UNCHANGED <<websocket, sttOp, connState, closeCalls, outbox, inbox, script,
                   sentIdx, handled, pushed, callers, runStt, sttCalls, sttSent,
                   stopped, pushedAtStop, closingWs, stopping>>
    /\ UNCHANGED ttsVars

\* The cancellation asked for by stop() reaches the receive task
\* (stt.py:123): CancelledError ends it
ReceiveCancelled ==
    /\ receiveTask = "cancelling"
    /\ receiveTask' = "cancelled"
    /\ recvConn' = None
    /\ UNCHANGED <<websocket, connState, closeCalls, outbox, inbox, script,
                   sentIdx, handled, pushed, sttOp, callers, runStt, sttCalls,
                   sttSent, pending, stopped, pushedAtStop, closingWs, stopping>>
    /\ UNCHANGED ttsVars

\* A task created by push_error runs (stt.py:119): the frame is pushed
PushErrorTask ==
    /\ pending # <<>>
    /\ pushed' = Append(pushed, Head(pending))
    /\ pending' = Tail(pending)
    /\ UNCHANGED <<websocket, connState, closeCalls, outbox, inbox, script,
                   sentIdx, receiveTask, recvConn, handled, sttOp, callers,
                   runStt, sttCalls, sttSent, stopped, pushedAtStop, closingWs,
                   stopping>>
    /\ UNCHANGED ttsVars

\* VoskSTTService.__init__ (stt.py:31-44), one task calling run_stt
InitSTT ==
    /\ script \in Scripts
    /\ callers = {1}
    /\ SttInitVars
    /\ chunk_size = 2
    /\ TtsInitVars

\* VoskSTTService.__init__ (stt.py:31-44), one task calling run_stt, the
\* backend of the failure scenarios
InitFaults ==
    /\ script \in ConnScripts
    /\ callers = {1}
    /\ SttInitVars
    /\ chunk_size = 2
    /\ TtsInitVars

\* VoskSTTService.__init__ (stt.py:31-44), two tasks calling run_stt
InitConn ==
    /\ script \in ConnScripts
    /\ callers = Callers
    /\ SttInitVars
    /\ chunk_size = 2
    /\ TtsInitVars

\* The adapter on a network that does not fail, its callers never cancelled
NextSTT ==
    \/ \E p \in callers, a \in Audios : RunStt(p, a)
    \/ \E p \in callers : ConnectOpened(p)
    \/ \E p \in callers : ConnectHandshakeFails(p, "ConnectionClosed")
    \/ \E p \in callers : ConnectWebsocket(p)
    \/ \E p \in callers : RunSttSend(p)
    \/ \E p \in callers : RunSttSendRaises(p, "ConnectionClosed")
    \/ DisconnectWebsocket
    \/ DisconnectReturns
    \/ BackendSend
    \/ SttStart
    \/ SttStop
    \/ SttStopReturns
    \/ ReceiveEnter
    \/ ReceiveMessage
    \/ ReceiveClosed
    \/ ReceiveCancelled
    \/ PushErrorTask

\* The failures of the network and the cancellation of a caller
NextFaults ==
    \/ \E p \in callers, e \in ConnectRaisable : ConnectOpenFails(p, e)
    \/ \E p \in callers : ConnectHandshakeFails(p, "CancelledError")
    \/ \E p \in callers : RunSttSendRaises(p, "CancelledError")
    \/ \E c \in 1..MaxConns : SocketError(c)
    \/ ReceiveSocketError

NextConn == NextSTT \/ NextFaults

SpecSTT == InitSTT /\ [][NextSTT]_vars

\* The adapter on a network that may fail, its caller cancellable
SpecFaults == InitFaults /\ [][NextConn]_vars

\* The adapter used by two tasks at once, on a network that may fail
SpecConn == InitConn /\ [][NextConn]_vars

\* Either adapter, on its own
InitAdapters == InitTTS \/ InitFaults
NextAdapters ==
    \/ callers = {} /\ NextTTS
    \/ callers # {} /\ NextConn
SpecAdapters == InitAdapters /\ [][NextAdapters]_vars

\* ------------------------------------------------------------------------
\* Properties of VoskSTTService
\* ------------------------------------------------------------------------
\* The events section 4.1 of the specification asks for a message
ExpectedEvents(m) ==
    (IF m.hasText /\ m.text # "" THEN <<TranscriptionFrame(m.text)>> ELSE <<>>)
    \o (IF m.hasPartial /\ m.partial # ""
        THEN <<InterimTranscriptionFrame(m.partial)>> ELSE <<>>)
RECURSIVE ExpectedOf(_)
ExpectedOf(hs) ==
    IF hs = <<>> THEN <<>> ELSE ExpectedEvents(Head(hs).msg) \o ExpectedOf(Tail(hs))
\* The transcription frames among the frames pushed (the others are the
\* error frames of push_error)
Transcripts(fs) == SelectSeq(fs, LAMBDA f : f.kind # "Error")
\* A message with at most one of the keys `text` and `partial`
OneKey(m) == ~(m.hasText /\ m.hasPartial)
\* A message whose recognised keys are all empty, with at least one present
EmptyResult(m) ==
    /\ m.json
    /\ m.hasText \/ m.hasPartial
    /\ m.hasText => m.text = ""
    /\ m.hasPartial => m.partial = ""

\* C7: the transcription frames are pushed in the order of the backend
\* messages that produced them: when the messages read carry at most one of
\* the two keys, the frames pushed are, in message order, an
\* InterimTranscriptionFrame per non-empty partial and a TranscriptionFrame
\* per non-empty text; for the script partial "h", "he", "hello", final
\* "hello" these are exactly four frames, three interim and one final.
C7_FramesInMessageOrder ==
    /\ (\A i \in 1..Len(handled) : OneKey(handled[i].msg)) =>
          Transcripts(pushed) = ExpectedOf(handled)
    /\ (script = VoskScript /\ Len(handled) = 4) =>
          Transcripts(pushed) = <<InterimTranscriptionFrame("h"), InterimTranscriptionFrame("he"),
                     InterimTranscriptionFrame("hello"), TranscriptionFrame("hello")>>

\* C7 witness: the scripted backend's four messages were read and four
\* frames pushed, the last one final.
C7_Witness ==
    /\ script = VoskScript
    /\ Len(handled) = 4
    /\ Kinds(pushed) = <<"InterimTranscription", "InterimTranscription",
                         "InterimTranscription", "Transcription">>

\* C8: a message whose `text` or `partial` value is empty and that carries
\* no non-empty value ({"partial": ""}, {"text": ""}) has no frame pushed
\* for it, and the loop goes on to the next message; no frame with an empty
\* text is ever pushed.
C8_EmptyResultsDropped ==
    /\ \A i \in 1..Len(handled) :
          EmptyResult(handled[i].msg) =>
             /\ handled[i].frames = <<>>
             /\ handled[i].goesOn
    /\ \A i \in 1..Len(pushed) : pushed[i].kind # "Error" => pushed[i].text # ""

\* C8 witness: {"partial": ""} and {"text": ""} were read, nothing was
\* pushed for them, and the frame of the message after them was pushed.
C8_Witness ==
    /\ script = EmptyResultScript
    /\ Len(handled) = 3
    /\ handled[1].msg = Partial("") /\ handled[2].msg = Final("")
    /\ pushed = <<InterimTranscriptionFrame("h")>>

\* C9: for every decoded message, a non-empty `text` gives a
\* TranscriptionFrame with it, a non-empty `partial` gives an
\* InterimTranscriptionFrame with it, and a message with neither key gives
\* no frame, for every combination of the keys in one message.
C9_EveryNonEmptyKeyEmits ==
    \A i \in 1..Len(handled) :
       LET m == handled[i].msg
           fs == handled[i].frames
       IN  m.json =>
             /\ (m.hasText /\ m.text # "") =>
                   \E k \in 1..Len(fs) : fs[k] = TranscriptionFrame(m.text)
             /\ (m.hasPartial /\ m.partial # "") =>
                   \E k \in 1..Len(fs) : fs[k] = InterimTranscriptionFrame(m.partial)
             /\ (~m.hasText /\ ~m.hasPartial) => fs = <<>>

\* C10: _disconnect_websocket leaves no connection handle after each call,
\* also when called again right after, and the adapter closes no socket
\* more than once.
C10_DisconnectIdempotent ==
    /\ \A c \in 1..MaxConns : closeCalls[c] <= 1
    /\ sttOp \in {"disconnect", "disconnect_again"} => websocket = None
    /\ \A c \in 1..MaxConns : closeCalls[c] = 1 => connState[c] = "closed"

\* C10 witness: a second disconnect right after the one that closed the
\* socket.
C10_Witness ==
    /\ sttOp = "disconnect_again"
    /\ websocket = None
    /\ \E c \in 1..MaxConns : closeCalls[c] = 1

\* The error frames reported by the receive task, pushed or still scheduled
ErrorsReported == Count(pushed, "Error") + Len(pending)
RECURSIVE MalformedCount(_)
MalformedCount(hs) ==
    IF hs = <<>> THEN 0
    ELSE (IF Head(hs).msg.json THEN 0 ELSE 1) + MalformedCount(Tail(hs))
\* The connections that are open: not closed by the adapter, not broken
LiveConns == {c \in 1..MaxConns : connState[c] = "open"}
Opened == {c \in 1..MaxConns : connState[c] # "unused"}
RECURSIVE BinarySent(_)
BinarySent(c) ==
    IF c = 0 THEN 0
    ELSE Len(SelectSeq(outbox[c], LAMBDA m : m.binary)) + BinarySent(c - 1)

\* C11: once stop() has returned the receive task is not running and no
\* frame, transcription or error, is pushed downstream any more, whatever
\* the receive task and the tasks scheduled by push_error were doing when
\* stop() was called.
C11_NothingPushedAfterStop ==
    stopped =>
       /\ receiveTask # "running"
       /\ Len(pushed) = pushedAtStop

\* C12: after a failed connect (the socket does not open, or the
\* configuration cannot be sent on it) the adapter holds no connection
\* handle, so that the next run_stt connects again.
C12_FailedConnectLeavesNoHandle ==
    sttOp = "connect_raised" => websocket = None

\* C13: at most one connection opened by the adapter is live at any time.
C13_AtMostOneLiveConnection ==
    Cardinality(LiveConns) <= 1

\* C14: a message that is not JSON is reported as an error frame and does
\* not end the receive loop: after every malformed message read the receive
\* task is still running, so that the messages after it are decoded.
C14_MalformedReportedLoopGoesOn ==
    /\ \A i \in 1..Len(handled) : ~handled[i].msg.json => handled[i].goesOn
    /\ ErrorsReported >= MalformedCount(handled)

\* C15: after a socket error the adapter is left with no handle: a failed
\* connection is still held only while the receive task has yet to meet the
\* failure (it is running, or start() has not created it yet) or while
\* stop() is clearing the handle.
C15_SocketErrorDisconnects ==
    (websocket # None /\ connState[websocket] = "broken" /\ ~stopping) =>
       receiveTask \in {"none", "running"}

\* C16: the cancellation of a caller is never reported as an ErrorFrame:
\* a run_tts call cancelled in the POST or in the stream read and a run_stt
\* call cancelled in the connect or in the send yield none, and the receive
\* task cancelled by stop() schedules none (its only error frame is that
\* of the failure that ended it).
C16_CancellationIsNotAnError ==
    /\ cancelled => Count(frames, "Error") = 0
    /\ \A p \in callers :
          (runStt[p].raised = "CancelledError" \/ runStt[p].outcome = "cancelled") =>
             /\ runStt[p].yielded = <<>>
             /\ runStt[p].raised = "CancelledError"
    /\ ErrorsReported = (IF receiveTask = "raised" THEN 1 ELSE 0)

\* C16 witness: a run_tts call cancelled in the stream read, after its
\* Start frame.
C16_Witness ==
    /\ cancelled
    /\ Kinds(frames) = <<"TTSStarted", "TTSStopped">>

\* C19: a run_stt call that fails in the connect raises to its caller,
\* yields no frame and sends no audio; one whose send fails yields exactly
\* one ErrorFrame and raises nothing; one whose send succeeds yields no frame
\* and has put its audio, unmodified, as one binary message on the socket.
C19_RunSttOutcomes ==
    /\ \A p \in callers :
          LET r == runStt[p]
          IN  /\ r.outcome = "connect_raised" =>
                    r.raised # "none" /\ r.yielded = <<>>
              /\ r.outcome = "send_failed" =>
                    r.raised = "none" /\ Kinds(r.yielded) = <<"Error">>
              /\ r.outcome = "sent" =>
                    /\ r.raised = "none" /\ r.yielded = <<>>
                    /\ \E c \in 1..MaxConns : \E i \in 1..Len(outbox[c]) :
                          /\ outbox[c][i].binary
                          /\ outbox[c][i].data = r.audio
    /\ BinarySent(MaxConns) = sttSent

\* C19 witness: after a call that sent its audio, a call whose send failed
\* has yielded its ErrorFrame.
C19_Witness ==
    /\ runStt[1].outcome = "send_failed"
    /\ Kinds(runStt[1].yielded) = <<"Error">>
    /\ sttSent = 1

====
